---- MODULE Spec2Model ----
(***************************************************************************)
(* A state-machine model of figures/make_video.py: one command-line run of *)
(* PDFToMP4Converter (main -> __init__ -> convert -> pdf_to_images ->       *)
(* images_to_video).  The program is single-threaded; every action below    *)
(* is one statement group of the script, and the environment's choices      *)
(* (does the path exist, does a library call raise) are nondeterministic.   *)
(*                                                                         *)
(* Library behaviour that the script relies on but does not contain:        *)
(*   - a pixmap rendered with Matrix(dpi/72, dpi/72) has pt * dpi / 72      *)
(*     pixels per axis (integer part);                                      *)
(*   - cv2.VideoWriter reports isOpened() only for fps > 0 and a frame size *)
(*     with width > 0 and height > 0, and may fail to open otherwise too;   *)
(*   - an exception that escapes main() ends the interpreter with status 1  *)
(*     after printing a traceback.                                          *)
(* Durations are exact rationals <<num, den>> with den a power of two, so   *)
(* that the float product fps * duration_per_page of the script is exact.   *)
(***************************************************************************)
EXTENDS Integers, Sequences, FiniteSets

VARIABLES
    pc,                \* position of the single control thread
    pathExists,        \* environment: self.pdf_path.exists()
    pagesPt,           \* environment: the document's pages, <<w, h>> in points
    dpi,               \* args.dpi
    fps,               \* self.fps
    duration_per_page, \* self.duration_per_page as <<num, den>>
    docState,          \* "never" | "open" | "closed"      (doc)
    images,            \* list built by pdf_to_images: <<w, h>> in pixels
    sinkState,         \* "none" | "open" | "released"     (video_writer)
    sinkSize,          \* (width, height) given to cv2.VideoWriter
    opens,             \* number of video writers opened
    releases,          \* number of video_writer.release() calls
    frames_per_page,   \* local of images_to_video
    page,              \* index of img in "for img in images"
    rep,               \* iterations done of "for _ in range(frames_per_page)"
    img_bgr,           \* the frame prepared for the current page
    frames,            \* frames received by the sink, in order
    err,               \* the exception raised in the run, "none" if none
    caught,            \* times the except clause of convert ran
    printed,           \* error messages printed by convert
    exit_status,       \* process exit status, -1 while running
    trace              \* components entered, in order (history)

vars == <<pc, pathExists, pagesPt, dpi, fps, duration_per_page, docState,
          images, sinkState, sinkSize, opens, releases, frames_per_page,
          page, rep, img_bgr, frames, err, caught, printed, exit_status,
          trace>>

\* Largest page count of a document.
MaxPages == 2

\* Page edge lengths in points.
PtSizes == {2, 3}

\* Values of --dpi, --fps and --duration tried.
DpiValues == {0, 36, 72}
FpsValues == {0, 2, 3}
DurationValues == {<<0 - 1, 2>>, <<0, 1>>, <<1, 2>>, <<3, 4>>}

Documents == UNION {[1..n -> PtSizes \X PtSizes] : n \in 0..MaxPages}

----------------------------------------------------------------------------
\* Pure helpers

\* int(x) of Python for x = n / d, d > 0: truncation toward zero.
PyInt(n, d) == IF n >= 0 THEN n \div d ELSE 0 - ((0 - n) \div d)

\* floor(n / d), d > 0.
Floor(n, d) == n \div d

\* int(self.fps * self.duration_per_page)
FramesPerPage(f, d) == PyInt(f * d[1], d[2])

EvenDownKept(n) == n

\* "if width % 2 == 1: width -= 1"
EvenDown(n) == IF n % 2 = 1 THEN n - 1 ELSE n

\* page.get_pixmap(matrix=fitz.Matrix(dpi/72, dpi/72)) -> image size
PixmapSize(pt, d) == <<(pt[1] * d) \div 72, (pt[2] * d) \div 72>>

ResizedSizeOwn(img, target) == img

\* img.resize((width, height), LANCZOS).size
ResizedSize(img, target) == target

IsEmptyNever(imgs) == FALSE

\* "if not images"
IsEmpty(imgs) == Len(imgs) = 0

\* "if not self.pdf_path.exists(): raise FileNotFoundError"
CtorRaises(exists) == ~exists

\* The component (spec section 2) a statement belongs to is appended to the
\* history when control passes to it from another component.
Enter(s) == IF trace # <<>> /\ trace[Len(trace)] = s THEN trace
            ELSE Append(trace, s)

\* "except Exception as e: print(...); sys.exit(1)"
Catch(e) ==
    /\ err' = e
    /\ caught' = caught + 1
    /\ printed' = printed + 1
    /\ exit_status' = 1
    /\ pc' = "done"

----------------------------------------------------------------------------
Init ==
    /\ pc = "main"
    /\ pathExists \in BOOLEAN
    /\ pagesPt \in Documents
    /\ dpi \in DpiValues
    /\ fps \in FpsValues
    /\ duration_per_page \in DurationValues
    /\ docState = "never"
    /\ images = <<>>
    /\ sinkState = "none"
    /\ sinkSize = <<0, 0>>
    /\ opens = 0
    /\ releases = 0
    /\ frames_per_page = 0
    /\ page = 0
    /\ rep = 0
    /\ img_bgr = [page |-> 0, size |-> <<0, 0>>]
    /\ frames = <<>>
    /\ err = "none"
    /\ caught = 0
    /\ printed = 0
    /\ exit_status = 0 - 1
    /\ trace = <<>>

\* main: the constructor returns and convert() is entered.
CtorOk ==
    /\ pc = "main"
    /\ ~CtorRaises(pathExists)
    /\ pc' = "convert"
    /\ UNCHANGED <<pathExists, pagesPt, dpi, fps, duration_per_page, docState,
                   images, sinkState, sinkSize, opens, releases,
                   frames_per_page, page, rep, img_bgr, frames, err, caught,
                   printed, exit_status, trace>>

CtorRaiseStatusZero ==
    /\ pc = "main"
    /\ CtorRaises(pathExists)
    /\ err' = "FileNotFoundError"
    /\ exit_status' = 0
    /\ pc' = "done"
    /\ UNCHANGED <<pathExists, pagesPt, dpi, fps, duration_per_page, docState,
                   images, sinkState, sinkSize, opens, releases,
                   frames_per_page, page, rep, img_bgr, frames, caught,
                   printed, trace>>

\* main: the constructor raises outside any try block; the exception escapes
\* main() and the interpreter exits with status 1.
CtorRaise ==
    /\ pc = "main"
    /\ CtorRaises(pathExists)
    /\ err' = "FileNotFoundError"
    /\ exit_status' = 1
    /\ pc' = "done"
    /\ UNCHANGED <<pathExists, pagesPt, dpi, fps, duration_per_page, docState,
                   images, sinkState, sinkSize, opens, releases,
                   frames_per_page, page, rep, img_bgr, frames, caught,
                   printed, trace>>

\* pdf_to_images: fitz.open succeeds.
OpenDoc ==
    /\ pc = "convert"
    /\ pathExists
    /\ docState' = "open"
    /\ images' = <<>>
    /\ trace' = Enter("rasterizer")
    /\ pc' = "raster"
    /\ UNCHANGED <<pathExists, pagesPt, dpi, fps, duration_per_page,
                   sinkState, sinkSize, opens, releases, frames_per_page,
                   page, rep, img_bgr, frames, err, caught, printed,
                   exit_status>>

\* pdf_to_images: fitz.open raises (missing or unparsable file).
OpenDocFail ==
    /\ pc = "convert"
    /\ trace' = Enter("rasterizer")
    /\ Catch("FormatError")
    /\ UNCHANGED <<pathExists, pagesPt, dpi, fps, duration_per_page, docState,
                   images, sinkState, sinkSize, opens, releases,
                   frames_per_page, page, rep, img_bgr, frames>>

\* pdf_to_images: one iteration of the page loop.
RenderPage ==
    /\ pc = "raster"
    /\ Len(images) < Len(pagesPt)
    /\ images' = Append(images, PixmapSize(pagesPt[Len(images) + 1], dpi))
    /\ UNCHANGED <<pc, pathExists, pagesPt, dpi, fps, duration_per_page,
                   docState, sinkState, sinkSize, opens, releases,
                   frames_per_page, page, rep, img_bgr, frames, err, caught,
                   printed, exit_status, trace>>

\* pdf_to_images: load_page / get_pixmap / Image.open raises in an iteration;
\* doc.close() is not reached.
RenderPageFail ==
    /\ pc = "raster"
    /\ Len(images) < Len(pagesPt)
    /\ Catch("RenderError")
    /\ UNCHANGED <<pathExists, pagesPt, dpi, fps, duration_per_page, docState,
                   images, sinkState, sinkSize, opens, releases,
                   frames_per_page, page, rep, img_bgr, frames, trace>>

CloseDocSkipped ==
    /\ pc = "raster"
    /\ Len(images) = Len(pagesPt)
    /\ pc' = "compose"
    /\ UNCHANGED <<pathExists, pagesPt, dpi, fps, duration_per_page, docState,
                   images, sinkState, sinkSize, opens, releases,
                   frames_per_page, page, rep, img_bgr, frames, err, caught,
                   printed, exit_status, trace>>

\* pdf_to_images: the loop is over, doc.close(), return images.
CloseDoc ==
    /\ pc = "raster"
    /\ Len(images) = Len(pagesPt)
    /\ docState' = "closed"
    /\ pc' = "compose"
    /\ UNCHANGED <<pathExists, pagesPt, dpi, fps, duration_per_page, images,
                   sinkState, sinkSize, opens, releases, frames_per_page,
                   page, rep, img_bgr, frames, err, caught, printed,
                   exit_status, trace>>

\* images_to_video: "if not images: raise ValueError"; were the test to let
\* an empty list through, images[0] raises IndexError.
ComposeRaise ==
    /\ pc = "compose"
    /\ IsEmpty(images) \/ (~IsEmpty(images) /\ Len(images) = 0)
    /\ trace' = Enter("composer")
    /\ Catch(IF IsEmpty(images) THEN "ValueError" ELSE "IndexError")
    /\ UNCHANGED <<pathExists, pagesPt, dpi, fps, duration_per_page, docState,
                   images, sinkState, sinkSize, opens, releases,
                   frames_per_page, page, rep, img_bgr, frames>>

\* images_to_video: width, height from the first image, made even.
TargetSize ==
    /\ pc = "compose"
    /\ ~IsEmpty(images)
    /\ Len(images) > 0
    /\ sinkSize' = <<EvenDown(images[1][1]), EvenDown(images[1][2])>>
    /\ trace' = Enter("composer")
    /\ pc' = "open"
    /\ UNCHANGED <<pathExists, pagesPt, dpi, fps, duration_per_page, docState,
                   images, sinkState, opens, releases, frames_per_page, page,
                   rep, img_bgr, frames, err, caught, printed, exit_status>>

\* images_to_video: cv2.VideoWriter(...) and isOpened() is true.
OpenSink ==
    /\ pc = "open"
    /\ fps > 0
    /\ sinkSize[1] > 0
    /\ sinkSize[2] > 0
    /\ sinkState' = "open"
    /\ opens' = opens + 1
    /\ trace' = Enter("writer")
    /\ pc' = "count"
    /\ UNCHANGED <<pathExists, pagesPt, dpi, fps, duration_per_page, docState,
                   images, sinkSize, releases, frames_per_page, page, rep,
                   img_bgr, frames, err, caught, printed, exit_status>>

\* images_to_video: isOpened() is false, raise RuntimeError.
OpenSinkFail ==
    /\ pc = "open"
    /\ trace' = Enter("writer")
    /\ Catch("RuntimeError")
    /\ UNCHANGED <<pathExists, pagesPt, dpi, fps, duration_per_page, docState,
                   images, sinkState, sinkSize, opens, releases,
                   frames_per_page, page, rep, img_bgr, frames>>

\* images_to_video: frames_per_page = int(self.fps * self.duration_per_page)
RepeatCount ==
    /\ pc = "count"
    /\ frames_per_page' = FramesPerPage(fps, duration_per_page)
    /\ page' = 1
    /\ trace' = Enter("composer")
    /\ pc' = "pages"
    /\ UNCHANGED <<pathExists, pagesPt, dpi, fps, duration_per_page, docState,
                   images, sinkState, sinkSize, opens, releases, rep, img_bgr,
                   frames, err, caught, printed, exit_status>>

\* images_to_video: resize and colour conversion of the next image.
PreparePage ==
    /\ pc = "pages"
    /\ page <= Len(images)
    /\ img_bgr' = [page |-> page, size |-> ResizedSize(images[page], sinkSize)]
    /\ rep' = 0
    /\ trace' = Enter("composer")
    /\ pc' = "repeat"
    /\ UNCHANGED <<pathExists, pagesPt, dpi, fps, duration_per_page, docState,
                   images, sinkState, sinkSize, opens, releases,
                   frames_per_page, page, frames, err, caught, printed,
                   exit_status>>

\* images_to_video: resize / np.array / cvtColor raises (e.g. MemoryError);
\* video_writer.release() is not reached.
PreparePageFail ==
    /\ pc = "pages"
    /\ page <= Len(images)
    /\ trace' = Enter("composer")
    /\ Catch("MemoryError")
    /\ UNCHANGED <<pathExists, pagesPt, dpi, fps, duration_per_page, docState,
                   images, sinkState, sinkSize, opens, releases,
                   frames_per_page, page, rep, img_bgr, frames>>

\* images_to_video: video_writer.write(img_bgr)
WriteFrame ==
    /\ pc = "repeat"
    /\ rep < frames_per_page
    /\ frames' = Append(frames, img_bgr)
    /\ rep' = rep + 1
    /\ trace' = Enter("writer")
    /\ UNCHANGED <<pc, pathExists, pagesPt, dpi, fps, duration_per_page,
                   docState, images, sinkState, sinkSize, opens, releases,
                   frames_per_page, page, img_bgr, err, caught, printed,
                   exit_status>>

\* images_to_video: range(frames_per_page) is exhausted, next img.
NextPage ==
    /\ pc = "repeat"
    /\ rep >= frames_per_page
    /\ page' = page + 1
    /\ pc' = "pages"
    /\ UNCHANGED <<pathExists, pagesPt, dpi, fps, duration_per_page, docState,
                   images, sinkState, sinkSize, opens, releases,
                   frames_per_page, rep, img_bgr, frames, err, caught,
                   printed, exit_status, trace>>

\* images_to_video: the loop is over, video_writer.release(); convert and
\* main return and the process ends with status 0.
Release ==
    /\ pc = "pages"
    /\ page > Len(images)
    /\ sinkState' = "released"
    /\ releases' = releases + 1
    /\ trace' = Enter("writer")
    /\ exit_status' = 0
    /\ pc' = "done"
    /\ UNCHANGED <<pathExists, pagesPt, dpi, fps, duration_per_page, docState,
                   images, sinkSize, opens, frames_per_page, page, rep,
                   img_bgr, frames, err, caught, printed>>

Next ==
    \/ CtorOk
    \/ CtorRaise
    \/ OpenDoc
    \/ OpenDocFail
    \/ RenderPage
    \/ RenderPageFail
    \/ CloseDoc
    \/ ComposeRaise
    \/ TargetSize
    \/ OpenSink
    \/ OpenSinkFail
    \/ RepeatCount
    \/ PreparePage
    \/ PreparePageFail
    \/ WriteFrame
    \/ NextPage
    \/ Release

Spec == Init /\ [][Next]_vars

----------------------------------------------------------------------------
\* Supporting facts

TypeOK ==
    /\ pc \in {"main", "convert", "raster", "compose", "open", "count",
               "pages", "repeat", "done"}
    /\ docState \in {"never", "open", "closed"}
    /\ sinkState \in {"none", "open", "released"}
    /\ Len(images) <= Len(pagesPt)
    /\ (exit_status = 0 - 1) <=> (pc # "done")

\* The run parameters satisfy the Config invariant of the specification.
ValidConfig == duration_per_page[1] > 0 /\ fps > 0 /\ dpi > 0

\* The run ended without an exception.
Succeeded == pc = "done" /\ err = "none"

\* All repeats of page i precede page i+1, n identical frames per page.
GroupedByPage(n) ==
    \A k \in 1..Len(frames) :
        /\ frames[k].page = ((k - 1) \div n) + 1
        /\ frames[k].size = sinkSize

\* With fps * duration_per_page >= 0 the frame layout of the specification
\* is what the writer receives.
FrameLayoutNonNegative ==
    (Succeeded /\ fps * duration_per_page[1] >= 0) =>
        /\ Len(frames) = Len(images)
                         * Floor(fps * duration_per_page[1], duration_per_page[2])
        /\ GroupedByPage(Floor(fps * duration_per_page[1], duration_per_page[2]))

----------------------------------------------------------------------------
\* C1: every successful conversion of an N-page document, N >= 1, with any
\* fps and duration_per_page, writes exactly N * floor(fps * duration_per_page)
\* frames, grouped by page in page order, floor(fps * duration_per_page)
\* identical frames per page.
C1_FrameCountAndOrder ==
    (Succeeded /\ Len(images) >= 1) =>
        /\ Len(frames) = Len(images)
                         * Floor(fps * duration_per_page[1], duration_per_page[2])
        /\ GroupedByPage(Floor(fps * duration_per_page[1], duration_per_page[2]))

\* C2: whenever the video sink is opened, its width and height are both even
\* and each is the first page's raw dimension rounded down to an even number.
C2_EvenSinkSize ==
    sinkState # "none" =>
        \A a \in 1..2 :
            /\ sinkSize[a] % 2 = 0
            /\ sinkSize[a] <= images[1][a]
            /\ images[1][a] - sinkSize[a] <= 1

C2_Witness ==
    /\ sinkState = "open"
    /\ images[1][1] % 2 = 1
    /\ images[1][2] % 2 = 0

\* C3: in every run in which the sink is opened it is released exactly once,
\* after the last frame, on every path by which the run ends (stated for the
\* runs whose parameters satisfy the Config invariant).
C3_ReleasedExactlyOnce ==
    (pc = "done" /\ opens > 0 /\ ValidConfig) =>
        (releases = 1 /\ sinkState = "released")

\* C4: in every run in which the document is opened it is released before the
\* run ends, whether or not rendering succeeds (stated for the runs whose
\* parameters satisfy the Config invariant).
C4_DocumentReleased ==
    (pc = "done" /\ docState # "never" /\ ValidConfig) => docState = "closed"

\* C5: every error raised in a run is caught exactly once at the top level,
\* reported as one printed message and ends the process with status 1; a run
\* without error ends with status 0.
C5_CaughtOnceExitOne ==
    pc = "done" =>
        IF err # "none"
        THEN caught = 1 /\ printed = 1 /\ exit_status = 1
        ELSE caught = 0 /\ printed = 0 /\ exit_status = 0

\* C6: with an input path that does not exist the run ends with exit status 1,
\* the document is never opened, the sink is never opened and no frame is
\* written.
C6_MissingInput ==
    (pc = "done" /\ ~pathExists) =>
        /\ exit_status = 1
        /\ docState = "never"
        /\ sinkState = "none"
        /\ opens = 0
        /\ frames = <<>>

C6_Witness == pc = "done" /\ ~pathExists /\ err = "FileNotFoundError"

\* C7: a zero-page document that reaches images_to_video fails with the
\* empty-input error (ValueError) and exit status 1, before the sink is
\* opened: no writer is created and no frame is written.
C7_EmptyDocument ==
    (pc = "done" /\ docState = "closed" /\ Len(pagesPt) = 0) =>
        /\ err = "ValueError"
        /\ exit_status = 1
        /\ sinkState = "none"
        /\ opens = 0
        /\ frames = <<>>
        /\ \A k \in 1..Len(trace) : trace[k] # "writer"

C7_Witness ==
    /\ pc = "done"
    /\ docState = "closed"
    /\ Len(pagesPt) = 0
    /\ caught = 1

\* Order of the components in the pipeline of the specification.
Rank(s) == CASE s = "rasterizer" -> 1
             [] s = "composer" -> 2
             [] s = "writer" -> 3

\* C8 as stated: control passes Rasterizer -> Frame Composer -> Video Writer
\* strictly forward, every step entered at most once and never after a later
\* step has started, all pages rasterized and the document closed before the
\* sink is opened or a frame written (stated for the runs whose parameters
\* satisfy the Config invariant).
C8_StrictlyForward ==
    ValidConfig =>
        /\ \A i \in 1..Len(trace) : \A j \in 1..Len(trace) :
               i < j => Rank(trace[i]) < Rank(trace[j])
        /\ (sinkState # "none" \/ frames # <<>>) =>
               (Len(images) = Len(pagesPt) /\ docState = "closed")

\* C8 amended: the Rasterizer runs first, at most once and is never
\* re-entered; all pages are rasterized and the document is closed before the
\* Frame Composer starts, the sink is opened or a frame is written; the sink
\* is opened at most once.  (Composer and Writer statements alternate.)
C8_RasterizerFirst ==
    /\ \A k \in 2..Len(trace) : trace[k] # "rasterizer"
    /\ (Len(trace) >= 2 \/ sinkState # "none" \/ frames # <<>>) =>
           (Len(images) = Len(pagesPt) /\ docState = "closed")
    /\ opens <= 1

C8_Witness ==
    /\ Succeeded
    /\ Len(images) = 2
    /\ Len(frames) >= 2
    /\ Len(trace) >= 6

\* C9: in every run that opens the video sink, seconds-per-page > 0, fps > 0
\* and DPI > 0.
C9_ConfigPositive ==
    opens > 0 => (duration_per_page[1] > 0 /\ fps > 0 /\ dpi > 0)

\* C10: every frame handed to the sink has the sink's declared size, whatever
\* the native sizes of the pages, and the declared size does not change
\* between the opening of the sink and its release.
C10_FramesMatchSink ==
    /\ [](\A k \in 1..Len(frames) : frames[k].size = sinkSize)
    /\ [][sinkState = "open" => sinkSize' = sinkSize]_vars

C10_Witness ==
    /\ Len(frames) >= 1
    /\ frames[Len(frames)].page = 2
    /\ images[2] # images[1]
    /\ images[2] # sinkSize

====
